---- MODULE Spec2Model ----
(***************************************************************************)
(* Model of src/app.py: the archive-generation pipeline of the bucket      *)
(* browser (download_folder_progress.generate), the process-wide task      *)
(* registry download_tasks, and the handlers that share it (get_zip, its   *)
(* background cleanup thread, cancel_download).  The server runs with      *)
(* threaded=True (src/app.py:523), so handlers interleave.                 *)
(*                                                                         *)
(* Granularity.  One action is one access to the shared dict download_tasks*)
(* together with the thread-local code around it: local statements (the    *)
(* listing, an object fetch, a write to the run's own archive, a yield)    *)
(* commute with the other threads' steps.  A statement such as             *)
(*   download_tasks[task_id]['cancelled'] = True                           *)
(* is one step: a store into a dict that was replaced or deleted after the *)
(* lookup is invisible to every later reader, which is what the same       *)
(* statement executed just before the replacement gives.  Only a yield     *)
(* whose moment a property speaks about (complete) is a step of its own.   *)
(*                                                                         *)
(* The handlers that never touch download_tasks have specifications of     *)
(* their own: SpecTree (build_tree and render_tree on any list of records),*)
(* SpecNames (the same on unusual segment names), SpecIndex (the index     *)
(* route), SpecInfo (folder_info) and SpecLegacy (download_folder next to  *)
(* one run of generate()).                                                 *)
(***************************************************************************)
EXTENDS Integers, Sequences, FiniteSets, TLC

\* ---------------------------------------------------------------- bounds
MaxObjects == 2       \* longest prefix listing
PageSize == 1         \* records per page of the storage listing
MaxTimers == 1        \* cleanup threads alive at once
TickStep == 30        \* largest advance of time in one step

\* ------------------------------------------------------ program constants
EvictionDelay == 60             \* time.sleep(60)
CompressionThreshold == 100     \* len(objects) > 100

\* Two generation requests, the fewest that can meet on one task id; they
\* are numbered in their order of arrival.
Runs == {1, 2}
\* request.args.get('task_id', 'unknown'): the requests of the model name the
\* same task, the case in which they share an entry of download_tasks.
TaskIds == {"unknown"}

\* Python's None / a present value
None == << >>
Some(x) == << x >>

\* Keys are strings, modelled as sequences of characters.
FolderPath == << "a" >>                  \* the folder_path of the route
MarkerKey == << "a", "/" >>
FileB == << "a", "/", "b" >>
FileCD == << "a", "/", "c", "/", "d" >>
Universe ==
  << [Key |-> MarkerKey, Size |-> 0],
     [Key |-> FileB, Size |-> 10],
     [Key |-> FileCD, Size |-> 20] >>

\* The listings the bucket may hold under the prefix: the subsequences of
\* Universe (S3 lists in key order) of at most MaxObjects records.
RECURSIVE SubSeqs(_)
SubSeqs(s) ==
  IF s = << >> THEN { << >> }
  ELSE LET rest == SubSeqs(Tail(s))
       IN rest \cup { << Head(s) >> \o r : r \in rest }

Listings == { l \in SubSeqs(Universe) : Len(l) <= MaxObjects }

Min(a, b) == IF a <= b THEN a ELSE b

VARIABLES
  bucket,          \* the records s3 lists under the prefix, in order
  download_tasks,  \* the dict download_tasks: task id -> task dict
  gen,             \* per run: the locals and position of generate()
  cancel_req,      \* the cancel_download handler in flight
  zip_req,         \* the get_zip handler in flight
  timers,          \* the cleanup threads started by get_zip
  elapsed,         \* per task id: time since its zip_buffer was stored
  fetched,         \* history, per task id: the archive of the first get-zip
                   \* answered since the id was last absent, and its age
  cancel_pending,  \* history: the runs that were in their loop (or before
                   \* the check of line 347) when a cancel set their flag
  page,            \* the index handler: build_tree and render_tree
  info_req,        \* the folder_info handler
  legacy_req       \* the download_folder handler

\* the handlers that never touch download_tasks
pure_vars == << page, info_req, legacy_req >>

vars == << bucket, download_tasks, gen, cancel_req, zip_req, timers, elapsed,
           fetched, cancel_pending, pure_vars >>

\* ------------------------------------------------------------ dict helpers
Has(d, k) == k \in DOMAIN d
Put(d, k, v) == [x \in (DOMAIN d) \cup {k} |-> IF x = k THEN v ELSE d[x]]
Del(d, k) == [x \in (DOMAIN d) \ {k} |-> d[x]]

\* {'cancelled': False, 'zip_buffer': None}; folder_name is not a key yet
NewTask == [cancelled |-> FALSE, zip_buffer |-> None, folder_name |-> None]

\* download_tasks.get(task_id, {}).get('cancelled', False)
IsCancelled(d, id) == IF Has(d, id) THEN d[id].cancelled ELSE FALSE

\* folder_path normalisation: append '/' unless it ends with one
Normalize(p) == IF Len(p) > 0 /\ p[Len(p)] = "/" THEN p ELSE p \o << "/" >>

\* folder_path.rstrip('/')
RECURSIVE RStrip(_)
RStrip(p) == IF Len(p) > 0 /\ p[Len(p)] = "/" THEN RStrip(SubSeq(p, 1, Len(p) - 1)) ELSE p

\* os.path.basename: what follows the last '/'
RECURSIVE Basename(_)
Basename(p) ==
  IF p = << >> THEN << >>
  ELSE IF p[Len(p)] = "/" THEN << >>
  ELSE Basename(SubSeq(p, 1, Len(p) - 1)) \o << p[Len(p)] >>

\* key[len(folder_path_normalized):]
RelativePath(key, prefix) == SubSeq(key, Len(prefix) + 1, Len(key))

\* ------------------------------------------------------- storage listing
\* One list_objects_v2 call: the page that starts at record `token`.
ListPage(token) ==
  LET last == Min(token + PageSize - 1, Len(bucket))
  IN [Contents |-> SubSeq(bucket, token, last),
      IsTruncated |-> last < Len(bucket),
      NextContinuationToken |-> last + 1]

\* a single call, continuation token ignored
ListLoopFirstPage(objects, token) == objects \o ListPage(token).Contents

\* The while True loop: follow the continuation token to the last page.
RECURSIVE ListLoop(_, _)
ListLoop(objects, token) ==
  LET response == ListPage(token)
      extended == objects \o response.Contents
  IN IF response.IsTruncated
       THEN ListLoop(extended, response.NextContinuationToken)
       ELSE extended

ListPrefix == ListLoop(<< >>, 1)

\* zipfile.ZIP_STORED if len(objects) > 100 else zipfile.ZIP_DEFLATED
Compression(n) == IF n > CompressionThreshold THEN "STORED" ELSE "DEFLATED"

\* ------------------------------------------------------------------ events
EvProgress(current, total) == << "progress", current, total >>
EvComplete(n) == << "complete", n >>
EvCancelled == << "cancelled" >>
EvError == << "error" >>

IdleGen ==
  [pc |-> "idle", task_id |-> "unknown", objects |-> << >>, idx |-> 1,
   file_count |-> 0, zip |-> << >>, events |-> << >>,
   failed |-> {}]     \* history: the keys whose fetch raised (342-344)

IdleReq == [pc |-> "idle", id |-> "unknown", resp |-> "none", data |-> None]

IdlePage == [pc |-> "idle"]
IdleInfo == [pc |-> "idle"]
IdleLegacy == [pc |-> "idle"]

Init ==
  /\ bucket \in Listings
  /\ download_tasks = [t \in {} |-> NewTask]
  /\ gen = [g \in Runs |-> IdleGen]
  /\ cancel_req = IdleReq
  /\ zip_req = IdleReq
  /\ timers = << >>
  /\ elapsed = [t \in TaskIds |-> 0]
  /\ fetched = [t \in TaskIds |-> None]
  /\ cancel_pending = {}
  /\ page = IdlePage
  /\ info_req = IdleInfo
  /\ legacy_req = IdleLegacy

\* ------------------------------------------------- generate(): one run g
IsEmptyListingOff(objects) == Len(objects) < 0

\* Line 300: if len(objects) == 0
IsEmptyListing(objects) == Len(objects) = 0

ProgressCurrentIdx(r) == r.idx

\* Lines 336, 340: file_count += 1, then 'current': file_count
ProgressCurrent(r) == r.file_count + 1

\* Lines 262-305: read task_id, list the prefix, refuse an empty listing,
\* else register the task (unconditionally) and open the archive.  A failed
\* listing call raises into the handler at 363-365.
Begin(g) ==
  /\ gen[g].pc = "idle"
  /\ \A h \in Runs : h < g => gen[h].pc # "idle"
  /\ \E id \in TaskIds, listing_ok \in BOOLEAN :
       LET objects == ListPrefix
       IN IF ~listing_ok \/ IsEmptyListing(objects)
            THEN /\ gen' = [gen EXCEPT ![g].pc = "done", ![g].task_id = id,
                                       ![g].events = << EvError >>]
                 /\ UNCHANGED << download_tasks, elapsed >>
            ELSE /\ gen' = [gen EXCEPT ![g].pc = "loop", ![g].task_id = id,
                                       ![g].objects = objects, ![g].idx = 1]
                 /\ download_tasks' = Put(download_tasks, id, NewTask)
                 /\ elapsed' = [elapsed EXCEPT ![id] = 0]
  /\ UNCHANGED << bucket, cancel_req, zip_req, timers >>
  /\ UNCHANGED << fetched, cancel_pending, pure_vars >>

\* Lines 315-344: one iteration of the for loop over objects.
Iterate(g) ==
  LET r == gen[g]
      obj == r.objects[r.idx]
      prefix == Normalize(FolderPath)
      relative_path == RelativePath(obj.Key, prefix)
      next_pc == IF r.idx + 1 > Len(r.objects) THEN "check" ELSE "loop"
  IN /\ r.pc = "loop"
     /\ \/ /\ IsCancelled(download_tasks, r.task_id)            \* 317-320
           /\ gen' = [gen EXCEPT ![g].pc = "done",
                                 ![g].events = Append(r.events, EvCancelled)]
        \/ /\ ~IsCancelled(download_tasks, r.task_id)
           /\ obj.Key = prefix                                    \* 324-325
           /\ gen' = [gen EXCEPT ![g].pc = next_pc, ![g].idx = r.idx + 1]
        \/ /\ ~IsCancelled(download_tasks, r.task_id)
           /\ obj.Key # prefix
           /\ \E fetch_ok \in BOOLEAN :
                IF fetch_ok /\ relative_path # << >>              \* 330-340
                  THEN gen' = [gen EXCEPT
                         ![g].pc = next_pc, ![g].idx = r.idx + 1,
                         ![g].zip = Append(r.zip, relative_path),
                         ![g].file_count = r.file_count + 1,
                         ![g].events = Append(r.events,
                            EvProgress(ProgressCurrent(r), Len(r.objects)))]
                  ELSE gen' = [gen EXCEPT                         \* 342-344
                         ![g].pc = next_pc, ![g].idx = r.idx + 1,
                         ![g].failed = IF fetch_ok THEN @ ELSE @ \cup {obj.Key}]
     /\ UNCHANGED << bucket, download_tasks, cancel_req, zip_req, timers, elapsed >>
     /\ UNCHANGED << fetched, cancel_pending, pure_vars >>

\* the check of line 347 without the return of line 350
PostCheckNoReturn(g) ==
  /\ gen[g].pc = "check"
  /\ IF IsCancelled(download_tasks, gen[g].task_id)
       THEN gen' = [gen EXCEPT ![g].pc = "store",
                               ![g].events = Append(gen[g].events, EvCancelled)]
       ELSE gen' = [gen EXCEPT ![g].pc = "store"]
  /\ UNCHANGED << bucket, download_tasks, cancel_req, zip_req, timers, elapsed >>
  /\ UNCHANGED << fetched, cancel_pending, pure_vars >>

\* Lines 346-350: the check after the archive is closed.
PostCheck(g) ==
  /\ gen[g].pc = "check"
  /\ IF IsCancelled(download_tasks, gen[g].task_id)
       THEN gen' = [gen EXCEPT ![g].pc = "done",
                               ![g].events = Append(gen[g].events, EvCancelled)]
       ELSE gen' = [gen EXCEPT ![g].pc = "store"]
  /\ UNCHANGED << bucket, download_tasks, cancel_req, zip_req, timers, elapsed >>
  /\ UNCHANGED << fetched, cancel_pending, pure_vars >>

\* Lines 352-355: download_tasks[task_id]['zip_buffer'] = zip_buffer; a
\* missing entry raises KeyError into the handler at 363-365.
StoreBuffer(g) ==
  LET r == gen[g]
      buffer == [entries |-> r.zip, compression |-> Compression(Len(r.objects))]
  IN /\ r.pc = "store"
     /\ IF Has(download_tasks, r.task_id)
          THEN /\ download_tasks' =
                    [download_tasks EXCEPT ![r.task_id].zip_buffer = Some(buffer)]
               /\ elapsed' = [elapsed EXCEPT ![r.task_id] = 0]
               /\ gen' = [gen EXCEPT ![g].pc = "name"]
          ELSE /\ gen' = [gen EXCEPT ![g].pc = "done",
                                     ![g].events = Append(r.events, EvError)]
               /\ UNCHANGED << download_tasks, elapsed >>
     /\ UNCHANGED << bucket, cancel_req, zip_req, timers >>
     /\ UNCHANGED << fetched, cancel_pending, pure_vars >>

\* Line 356: download_tasks[task_id]['folder_name'] = basename(...)
StoreName(g) ==
  LET r == gen[g]
  IN /\ r.pc = "name"
     /\ IF Has(download_tasks, r.task_id)
          THEN /\ download_tasks' = [download_tasks EXCEPT
                    ![r.task_id].folder_name = Some(Basename(RStrip(FolderPath)))]
               /\ gen' = [gen EXCEPT ![g].pc = "complete"]
          ELSE /\ gen' = [gen EXCEPT ![g].pc = "done",
                                     ![g].events = Append(r.events, EvError)]
               /\ UNCHANGED download_tasks
     /\ UNCHANGED << bucket, cancel_req, zip_req, timers, elapsed >>
     /\ UNCHANGED << fetched, cancel_pending, pure_vars >>

\* Lines 358-361: yield the complete event.
EmitComplete(g) ==
  /\ gen[g].pc = "complete"
  /\ gen' = [gen EXCEPT ![g].pc = "done",
                        ![g].events = Append(gen[g].events, EvComplete(gen[g].file_count))]
  /\ UNCHANGED << bucket, download_tasks, cancel_req, zip_req, timers, elapsed >>
  /\ UNCHANGED << fetched, cancel_pending, pure_vars >>

\* ------------------------------------------------------- cancel_download
\* Lines 405, 408-409: the membership test.
CancelCheck(id) ==
  /\ cancel_req.pc \in {"idle", "done"}
  /\ IF Has(download_tasks, id)
       THEN cancel_req' = [pc |-> "set", id |-> id, resp |-> "none", data |-> None]
       ELSE cancel_req' = [pc |-> "done", id |-> id, resp |-> "not_found", data |-> None]
  /\ UNCHANGED << bucket, download_tasks, gen, zip_req, timers, elapsed >>
  /\ UNCHANGED << fetched, cancel_pending, pure_vars >>

\* Lines 406-407: set the flag; KeyError (a 500 answer) if the entry is gone.
CancelSet ==
  /\ cancel_req.pc = "set"
  /\ IF Has(download_tasks, cancel_req.id)
       THEN /\ download_tasks' = [download_tasks EXCEPT ![cancel_req.id].cancelled = TRUE]
            /\ cancel_req' = [cancel_req EXCEPT !.pc = "done", !.resp = "cancelled"]
            /\ cancel_pending' = cancel_pending \cup
                 { g \in Runs : gen[g].task_id = cancel_req.id
                                 /\ gen[g].pc \in {"loop", "check"} }
       ELSE /\ cancel_req' = [cancel_req EXCEPT !.pc = "done", !.resp = "error"]
            /\ UNCHANGED << download_tasks, cancel_pending >>
  /\ UNCHANGED << bucket, gen, zip_req, timers, elapsed >>
  /\ UNCHANGED << fetched, pure_vars >>

\* ---------------------------------------------------------------- get_zip
\* Lines 374-375: the membership test.
GetZipCheck(id) ==
  /\ zip_req.pc \in {"idle", "done"}
  /\ IF Has(download_tasks, id)
       THEN zip_req' = [pc |-> "read", id |-> id, resp |-> "none", data |-> None]
       ELSE zip_req' = [pc |-> "done", id |-> id, resp |-> "not_found", data |-> None]
  /\ UNCHANGED << bucket, download_tasks, gen, cancel_req, timers, elapsed >>
  /\ UNCHANGED << fetched, cancel_pending, pure_vars >>

\* Lines 377-398: read the task, answer "not ready" without a buffer, else
\* copy the buffer, start the cleanup thread and send the file.
GetZipServe ==
  /\ zip_req.pc = "read"
  /\ IF ~Has(download_tasks, zip_req.id)
       THEN /\ zip_req' = [zip_req EXCEPT !.pc = "done", !.resp = "error"]
            /\ UNCHANGED << timers, fetched >>
       ELSE LET task == download_tasks[zip_req.id]
                folder_name == IF task.folder_name = None
                                 THEN << "d", "o", "w", "n", "l", "o", "a", "d" >>
                                 ELSE task.folder_name[1]
            IN IF task.zip_buffer = None
                 THEN /\ zip_req' = [zip_req EXCEPT !.pc = "done", !.resp = "not_ready"]
                      /\ UNCHANGED << timers, fetched >>
                 ELSE /\ Len(timers) < MaxTimers
                      /\ zip_req' = [zip_req EXCEPT !.pc = "done", !.resp = "file",
                            !.data = Some([zip |-> task.zip_buffer[1],
                                           download_name |-> folder_name \o << ".", "z", "i", "p" >>])]
                      /\ timers' = Append(timers,
                            [id |-> zip_req.id, rem |-> EvictionDelay, pc |-> "sleep"])
                      /\ fetched' = IF fetched[zip_req.id] = None
                                      THEN [fetched EXCEPT ![zip_req.id] =
                                              Some([zip |-> task.zip_buffer[1], age |-> 0])]
                                      ELSE fetched
  /\ UNCHANGED << bucket, download_tasks, gen, cancel_req, elapsed >>
  /\ UNCHANGED << cancel_pending, pure_vars >>

\* ------------------------------------------------------- get_zip.cleanup
RemoveAt(s, i) == SubSeq(s, 1, i - 1) \o SubSeq(s, i + 1, Len(s))

\* Lines 391-392: the sleep is over; test the membership.
CleanupWake(i) ==
  /\ timers[i].pc = "sleep"
  /\ timers[i].rem = 0
  /\ IF Has(download_tasks, timers[i].id)
       THEN timers' = [timers EXCEPT ![i].pc = "del"]
       ELSE timers' = RemoveAt(timers, i)
  /\ UNCHANGED << bucket, download_tasks, gen, cancel_req, zip_req, elapsed >>
  /\ UNCHANGED << fetched, cancel_pending, pure_vars >>

\* Line 393: del download_tasks[task_id]; KeyError ends the thread.
CleanupDel(i) ==
  /\ timers[i].pc = "del"
  /\ download_tasks' = IF Has(download_tasks, timers[i].id)
                         THEN Del(download_tasks, timers[i].id)
                         ELSE download_tasks
  /\ timers' = RemoveAt(timers, i)
  /\ fetched' = [fetched EXCEPT ![timers[i].id] = None]
  /\ UNCHANGED << bucket, gen, cancel_req, zip_req, elapsed >>
  /\ UNCHANGED << cancel_pending, pure_vars >>

\* ------------------------------------------------------------------- time
\* A cleanup thread whose sleep is over runs before time moves on.
Runnable(t) == t.pc = "del" \/ t.rem = 0

HasBuffer(d, id) == Has(d, id) /\ d[id].zip_buffer # None

RECURSIVE MinRem(_)
MinRem(s) == IF s = << >> THEN TickStep ELSE Min(s[1].rem, MinRem(Tail(s)))

\* A thread between two statements that wait for nothing (no fetch, no
\* yield, no sleep) takes no measurable time: time is counted in units of
\* the eviction delay, not of a statement.
Computing ==
  \/ \E g \in Runs : gen[g].pc \in {"store", "name", "complete"}
  \/ cancel_req.pc = "set"
  \/ zip_req.pc = "read"

\* Time advances by at most TickStep and never past the end of a sleep.
Tick ==
  LET d == MinRem(timers)
  IN /\ ~Computing
     /\ \A i \in 1 .. Len(timers) : ~Runnable(timers[i])
     /\ timers' = [i \in 1 .. Len(timers) |-> [timers[i] EXCEPT !.rem = @ - d]]
     /\ elapsed' = [t \in TaskIds |->
                      IF HasBuffer(download_tasks, t)
                        THEN Min(elapsed[t] + d, EvictionDelay)
                        ELSE elapsed[t]]
     /\ fetched' = [t \in TaskIds |->
                      IF fetched[t] = None THEN None
                      ELSE Some([fetched[t][1] EXCEPT
                                   !.age = Min(@ + d, EvictionDelay)])]
     /\ UNCHANGED << bucket, download_tasks, gen, cancel_req, zip_req >>
     /\ UNCHANGED << cancel_pending, pure_vars >>

Next ==
  \/ \E g \in Runs : Begin(g)
  \/ \E g \in Runs : Iterate(g)
  \/ \E g \in Runs : PostCheck(g)
  \/ \E g \in Runs : StoreBuffer(g)
  \/ \E g \in Runs : StoreName(g)
  \/ \E g \in Runs : EmitComplete(g)
  \/ \E id \in TaskIds : CancelCheck(id)
  \/ CancelSet
  \/ \E id \in TaskIds : GetZipCheck(id)
  \/ GetZipServe
  \/ \E i \in 1 .. Len(timers) : CleanupWake(i)
  \/ \E i \in 1 .. Len(timers) : CleanupDel(i)
  \/ Tick

Spec == Init /\ [][Next]_vars

\* ======================================================= the tree builder
\* build_tree and render_tree are pure: they are checked on their own, for
\* every list of records that build_tree may be handed.
MaxTreeObjects == 3   \* longest list handed to build_tree

\* the variables of the registry and of the handlers that share it
registry_vars == << bucket, download_tasks, gen, cancel_req, zip_req, timers,
                    elapsed, fetched, cancel_pending >>

\* Every variable of the registry model in its initial, idle state.
Quiet ==
  /\ download_tasks = [t \in {} |-> NewTask]
  /\ gen = [g \in Runs |-> IdleGen]
  /\ cancel_req = IdleReq
  /\ zip_req = IdleReq
  /\ timers = << >>
  /\ elapsed = [t \in TaskIds |-> 0]
  /\ fetched = [t \in TaskIds |-> None]
  /\ cancel_pending = {}

\* The dict key "_root_files" under which build_tree keeps the root's files.
\* In the keys below a name without '/' is written as one element.
RootFiles == << "_root_files" >>
RootR == << "r" >>
RootB == << "b" >>
ReservedX == << "_root_files", "/", "x" >>
TreeUniverse ==
  { [Key |-> MarkerKey, Size |-> 0],
    [Key |-> FileB, Size |-> 10],
    [Key |-> FileCD, Size |-> 20],
    [Key |-> RootR, Size |-> 5],
    [Key |-> RootB, Size |-> 7],
    [Key |-> ReservedX, Size |-> 3] }

\* The lists of records with distinct keys, in any order.
TreeListings ==
  UNION { { l \in [1 .. n -> TreeUniverse] :
              \A i, j \in 1 .. n : i # j => l[i].Key # l[j].Key } :
          n \in 0 .. MaxTreeObjects }

\* ord() of the first character of a name
Code(c) ==
  CASE c = "/" -> 47
    [] c = "_root_files" -> 95
    [] c = "a" -> 97
    [] c = "b" -> 98
    [] c = "c" -> 99
    [] c = "d" -> 100
    [] c = "r" -> 114
    [] c = "s" -> 115
    [] c = "x" -> 120

\* Python's < on str
RECURSIVE StrLess(_, _)
StrLess(a, b) ==
  IF b = << >> THEN FALSE
  ELSE IF a = << >> THEN TRUE
  ELSE IF Code(Head(a)) # Code(Head(b)) THEN Code(Head(a)) < Code(Head(b))
  ELSE StrLess(Tail(a), Tail(b))

\* obj_key.split('/')
RECURSIVE Split(_)
Split(s) ==
  IF \A i \in 1 .. Len(s) : s[i] # "/" THEN << s >>
  ELSE LET i == CHOOSE k \in 1 .. Len(s) :
                  s[k] = "/" /\ \A m \in 1 .. k - 1 : s[m] # "/"
       IN << SubSeq(s, 1, i - 1) >> \o Split(SubSeq(s, i + 1, Len(s)))

EmptyDict == [x \in {} |-> << >>]
\* {"files": [], "folders": {}}
NewNode == [files |-> << >>, folders |-> EmptyDict]

\* Lines 65-68: walk parts[:-1] from the root, creating the missing nodes.
RECURSIVE EnsureChain(_, _)
EnsureChain(current, chain) ==
  IF chain = << >> THEN current
  ELSE LET part == Head(chain)
           made == IF Has(current, part) THEN current ELSE Put(current, part, NewNode)
       IN [made EXCEPT ![part].folders = EnsureChain(@, Tail(chain))]

\* Lines 74-79: walk parts[:-2] again and append to parts[-2]'s files.
RECURSIVE AppendFile(_, _, _)
AppendFile(current, chain, file) ==
  IF Len(chain) = 1
    THEN LET made == IF Has(current, chain[1]) THEN current
                     ELSE Put(current, chain[1], NewNode)
         IN [made EXCEPT ![chain[1]].files = Append(@, file)]
    ELSE [current EXCEPT ![Head(chain)].folders = AppendFile(@, Tail(chain), file)]

\* Lines 81-82: tree["_root_files"] = tree.get("_root_files", {...}); append
AddRootFile(tree, file) ==
  LET made == IF Has(tree, RootFiles) THEN tree ELSE Put(tree, RootFiles, NewNode)
  IN [made EXCEPT ![RootFiles].files = Append(@, file)]

\* Lines 58-82: the body of build_tree's loop for one record.
BuildOne(tree, obj) ==
  LET parts == Split(obj.Key)
      chain == SubSeq(parts, 1, Len(parts) - 1)
      walked == EnsureChain(tree, chain)
      file == [key |-> obj.Key, size |-> obj.Size]
  IN IF parts[Len(parts)] = << >> THEN walked
     ELSE IF Len(parts) > 1 THEN AppendFile(walked, chain, file)
     ELSE AddRootFile(walked, file)

\* sorted(tree.items()): the names in ascending order
RECURSIVE SortedNames(_)
SortedNames(S) ==
  IF S = {} THEN << >>
  ELSE LET m == CHOOSE x \in S : \A y \in S \ {x} : StrLess(x, y)
       IN << m >> \o SortedNames(S \ {m})

\* sorted(content["files"], key=lambda x: x['key']): a stable sort
RECURSIVE InsertFile(_, _)
InsertFile(sorted, f) ==
  IF sorted = << >> THEN << f >>
  ELSE IF StrLess(f.key, sorted[Len(sorted)].key)
    THEN InsertFile(SubSeq(sorted, 1, Len(sorted) - 1), f) \o << sorted[Len(sorted)] >>
  ELSE Append(sorted, f)

RECURSIVE SortedFiles(_)
SortedFiles(files) ==
  IF files = << >> THEN << >>
  ELSE InsertFile(SortedFiles(SubSeq(files, 1, Len(files) - 1)), files[Len(files)])

\* The rendered page as the sequence of its list items: a file item links
\* to /download/<key>, a folder item addresses its actions to folder_path;
\* `under` is the path of the folder whose list holds the item.
FileItem(f, under) == [kind |-> "file", key |-> f.key, under |-> under]
FolderItem(folder_path, under) == [kind |-> "folder", key |-> folder_path, under |-> under]

\* for file_obj in <files>: one file item each, in the order given
RenderFiles(files, under) == [i \in 1 .. Len(files) |-> FileItem(files[i], under)]

\* render_tree, lines 87-147
RECURSIVE RenderTree(_, _)
RECURSIVE RenderFolders(_, _, _)
RenderTree(tree, parent_path) ==
  (IF Has(tree, RootFiles)
     THEN RenderFiles(tree[RootFiles].files, parent_path)
     ELSE << >>)
  \o RenderFolders(tree, SortedNames((DOMAIN tree) \ {RootFiles}), parent_path)

\* Lines 101-143: the loop over the folders of one level
RenderFolders(tree, names, parent_path) ==
  IF names = << >> THEN << >>
  ELSE LET folder_name == Head(names)
           content == tree[folder_name]
           folder_path == IF parent_path # << >>
                            THEN parent_path \o << "/" >> \o folder_name
                            ELSE folder_name
       IN << FolderItem(folder_path, parent_path) >>
          \o RenderFiles(SortedFiles(content.files), folder_path)
          \o (IF DOMAIN content.folders # {}
                THEN RenderTree(content.folders, folder_path)
                ELSE << >>)
          \o RenderFolders(tree, Tail(names), parent_path)

\* build_tree was called with a list of records.
InitTree ==
  /\ bucket = << >>
  /\ Quiet
  /\ \E l \in TreeListings :
       page = [pc |-> "build", objects |-> l, idx |-> 1, tree |-> EmptyDict,
               html |-> << >>]
  /\ info_req = IdleInfo
  /\ legacy_req = IdleLegacy

\* One iteration of `for obj in objects` (lines 57-82).
BuildStep ==
  /\ page.pc = "build"
  /\ page.idx <= Len(page.objects)
  /\ page' = [page EXCEPT !.tree = BuildOne(@, page.objects[page.idx]),
                          !.idx = @ + 1]
  /\ UNCHANGED << registry_vars, info_req, legacy_req >>

\* return tree, then tree_html = render_tree(tree) (lines 85, 158)
Render ==
  /\ page.pc = "build"
  /\ page.idx > Len(page.objects)
  /\ page' = [page EXCEPT !.pc = "done", !.html = RenderTree(page.tree, << >>)]
  /\ UNCHANGED << registry_vars, info_req, legacy_req >>

NextTree ==
  \/ BuildStep
  \/ Render

SpecTree == InitTree /\ [][NextTree]_vars

\* The same two functions on keys with unusual segment names: the reserved
\* name as a folder, with and without a subfolder, and an empty segment.
ReservedSX == << "_root_files", "/", "s", "/", "x" >>
DoubleSlashB == << "a", "/", "/", "b" >>
NameUniverse ==
  { [Key |-> ReservedX, Size |-> 3],
    [Key |-> ReservedSX, Size |-> 4],
    [Key |-> DoubleSlashB, Size |-> 6],
    [Key |-> FileB, Size |-> 10],
    [Key |-> RootR, Size |-> 5] }
NameListings ==
  UNION { { l \in [1 .. n -> NameUniverse] :
              \A i, j \in 1 .. n : i # j => l[i].Key # l[j].Key } :
          n \in 0 .. MaxTreeObjects }

InitNames ==
  /\ bucket = << >>
  /\ Quiet
  /\ \E l \in NameListings :
       page = [pc |-> "build", objects |-> l, idx |-> 1, tree |-> EmptyDict,
               html |-> << >>]
  /\ info_req = IdleInfo
  /\ legacy_req = IdleLegacy

SpecNames == InitNames /\ [][NextTree]_vars

\* ------------------------------------------------------------------ index
\* GET /: here `bucket` is the whole bucket, in key order, and PageSize the
\* most records one list_objects_v2 call returns.
IndexUniverse ==
  Universe \o << [Key |-> RootB, Size |-> 7], [Key |-> RootR, Size |-> 5] >>
IndexListings == { l \in SubSeqs(IndexUniverse) : Len(l) <= MaxTreeObjects }

InitIndex ==
  /\ bucket \in IndexListings
  /\ Quiet
  /\ page = IdlePage
  /\ info_req = IdleInfo
  /\ legacy_req = IdleLegacy

\* Lines 154-158: one list_objects_v2 call, objs.get("Contents", []), then
\* build_tree(contents); an exception answers 500 (lines 163-165).
Index ==
  /\ page.pc = "idle"
  /\ \E listing_ok \in BOOLEAN :
       page' = [pc |-> IF listing_ok THEN "build" ELSE "failed",
                objects |-> IF listing_ok THEN ListPage(1).Contents ELSE << >>,
                idx |-> 1, tree |-> EmptyDict, html |-> << >>]
  /\ UNCHANGED << registry_vars, info_req, legacy_req >>

NextIndex ==
  \/ Index
  \/ BuildStep
  \/ Render

SpecIndex == InitIndex /\ [][NextIndex]_vars

\* ============================================================ folder_info
MaxInfoObjects == 3   \* longest listing handed to folder_info

FileCE == << "a", "/", "c", "/", "e" >>
FileFG == << "a", "/", "f", "/", "g" >>
FileR == << "a", "/", "r" >>
\* more records under the prefix "a/", in key order
InfoUniverse ==
  Universe \o << [Key |-> FileCE, Size |-> 30],
                 [Key |-> FileFG, Size |-> 40],
                 [Key |-> FileR, Size |-> 5] >>
InfoListings == { l \in SubSeqs(InfoUniverse) : Len(l) <= MaxInfoObjects }

InitInfo ==
  /\ bucket \in InfoListings
  /\ Quiet
  /\ page = IdlePage
  /\ info_req = IdleInfo
  /\ legacy_req = IdleLegacy

\* Lines 186-213: normalise the path and list the prefix page by page; a
\* failed listing call raises into the handler at 254-256.
InfoList ==
  /\ info_req.pc = "idle"
  /\ \E listing_ok \in BOOLEAN :
       info_req' =
         IF listing_ok
           THEN [pc |-> "stats", folder_path |-> Normalize(FolderPath),
                 objects |-> ListPrefix, idx |-> 1, total_size |-> 0,
                 file_count |-> 0, subfolders |-> {}, resp |-> None]
           ELSE [pc |-> "done", folder_path |-> Normalize(FolderPath),
                 objects |-> << >>, idx |-> 1, total_size |-> 0,
                 file_count |-> 0, subfolders |-> {}, resp |-> Some([status |-> 500])]
  /\ UNCHANGED << registry_vars, page, legacy_req >>

\* Lines 218-239: one iteration of `for obj in objects`.
InfoStep ==
  /\ info_req.pc = "stats"
  /\ info_req.idx <= Len(info_req.objects)
  /\ LET obj == info_req.objects[info_req.idx]
         key == obj.Key
         relative_path == RelativePath(key, info_req.folder_path)
     IN info_req' =
          IF key = info_req.folder_path
            THEN [info_req EXCEPT !.idx = @ + 1]
          ELSE IF \E i \in 1 .. Len(relative_path) : relative_path[i] = "/"
            THEN [info_req EXCEPT !.idx = @ + 1,
                                  !.total_size = @ + obj.Size,
                                  !.subfolders = @ \cup { Split(relative_path)[1] }]
          ELSE [info_req EXCEPT !.idx = @ + 1,
                                !.total_size = @ + obj.Size,
                                !.file_count = IF relative_path # << >> THEN @ + 1 ELSE @]
  /\ UNCHANGED << registry_vars, page, legacy_req >>

\* Lines 242-252: total_files = len(objects); the JSON answer.
InfoReturn ==
  /\ info_req.pc = "stats"
  /\ info_req.idx > Len(info_req.objects)
  /\ LET total_files == IF Len(info_req.objects) > 0 THEN Len(info_req.objects) ELSE 0
     IN info_req' =
          [info_req EXCEPT !.pc = "done",
                           !.resp = Some([status |-> 200,
                                          path |-> RStrip(info_req.folder_path),
                                          file_count |-> total_files,
                                          total_size_bytes |-> info_req.total_size,
                                          subfolder_count |-> Cardinality(info_req.subfolders)])]
  /\ UNCHANGED << registry_vars, page, legacy_req >>

NextInfo ==
  \/ InfoList
  \/ InfoStep
  \/ InfoReturn

SpecInfo == InitInfo /\ [][NextInfo]_vars

\* ======================================================== download_folder
\* The legacy endpoint builds the archive in the request itself.  It is
\* checked next to one run of generate() over the same bucket.
\* Line 465: zipfile.ZIP_STORED if len(objects) > 100 else ZIP_DEFLATED
LegacyCompression(n) == IF n > CompressionThreshold THEN "STORED" ELSE "DEFLATED"

LegacyFolderNameNoStrip(folder_path) == Basename(folder_path)

\* Line 506: os.path.basename(folder_path.rstrip('/')), on the normalised path
LegacyFolderName(folder_path) == Basename(RStrip(folder_path))

\* Lines 415-459: normalise, list page by page, refuse an empty listing with
\* 404; a failed listing call raises into the handler at 517-519.
LegacyList ==
  /\ legacy_req.pc = "idle"
  /\ \E listing_ok \in BOOLEAN :
       LET folder_path == Normalize(FolderPath)
           objects == IF listing_ok THEN ListPrefix ELSE << >>
           status == IF ~listing_ok THEN 500
                     ELSE IF Len(objects) = 0 THEN 404 ELSE 0
       IN legacy_req' =
            [pc |-> IF status = 0 THEN "loop" ELSE "done",
             folder_path |-> folder_path, objects |-> objects, idx |-> 1,
             zip |-> << >>, failed |-> {}, status |-> status,
             archive |-> None, folder_name |-> None]
  /\ UNCHANGED << registry_vars, page, info_req >>

\* Lines 468-500: one iteration of the loop over the listed records.
LegacyStep ==
  /\ legacy_req.pc = "loop"
  /\ legacy_req.idx <= Len(legacy_req.objects)
  /\ LET key == legacy_req.objects[legacy_req.idx].Key
         relative_path == RelativePath(key, legacy_req.folder_path)
     IN IF key = legacy_req.folder_path                            \* 472-473
          THEN legacy_req' = [legacy_req EXCEPT !.idx = @ + 1]
          ELSE \E fetch_ok \in BOOLEAN :
                 IF fetch_ok /\ relative_path # << >>              \* 482-490
                   THEN legacy_req' = [legacy_req EXCEPT
                          !.idx = @ + 1, !.zip = Append(@, relative_path)]
                   ELSE legacy_req' = [legacy_req EXCEPT           \* 497-500
                          !.idx = @ + 1,
                          !.failed = IF fetch_ok THEN @ ELSE @ \cup {key}]
  /\ UNCHANGED << registry_vars, page, info_req >>

\* Lines 502-515: name the archive after the folder and send it.
LegacyReturn ==
  /\ legacy_req.pc = "loop"
  /\ legacy_req.idx > Len(legacy_req.objects)
  /\ legacy_req' =
       [legacy_req EXCEPT
          !.pc = "done", !.status = 200,
          !.archive = Some([entries |-> legacy_req.zip,
                            compression |-> LegacyCompression(Len(legacy_req.objects))]),
          !.folder_name = Some(LegacyFolderName(legacy_req.folder_path))]
  /\ UNCHANGED << registry_vars, page, info_req >>

NextLegacy ==
  \/ Begin(1)
  \/ Iterate(1)
  \/ PostCheck(1)
  \/ StoreBuffer(1)
  \/ StoreName(1)
  \/ EmitComplete(1)
  \/ LegacyList
  \/ LegacyStep
  \/ LegacyReturn

SpecLegacy == Init /\ [][NextLegacy]_vars

\* ================================================================ claims
Last(s) == s[Len(s)]
IsProgress(e) == e[1] = "progress"
ProgressOf(events) == SelectSeq(events, IsProgress)
\* the run passed line 305
Registered(r) == r.pc # "idle" /\ r.objects # << >>
\* the step in which run g yields its last event
Ends(g) == gen[g].pc # "done" /\ gen'[g].pc = "done"

\* C1: a buffer is stored in the registry only if the task is not cancelled:
\* no run stores its archive (line 355) into a task whose cancelled flag has
\* been set by a cancel request during that run.
C1_BufferStoredOnlyIfNotCancelled ==
  [][\A g \in Runs :
       (gen[g].pc = "store" /\ gen'[g].pc = "name")
         => ~IsCancelled(download_tasks, gen[g].task_id)]_vars

\* C2: when a run that had registered its task ends with a cancelled or an
\* error event, the task entry is absent from the registry at once.
C2_AbnormalEndRemovesTask ==
  [][\A g \in Runs :
       (Ends(g) /\ Registered(gen[g])
          /\ Last(gen'[g].events)[1] \in {"cancelled", "error"})
         => ~Has(download_tasks', gen[g].task_id)]_vars

\* C3: a generation request whose task id is already in the registry fails
\* and leaves the registry, hence the existing entry, as it was.
C3_DuplicateTaskRejected ==
  [][\A g \in Runs :
       (gen[g].pc = "idle" /\ gen'[g].pc # "idle"
          /\ Has(download_tasks, gen'[g].task_id))
         => (gen'[g].pc = "done" /\ download_tasks' = download_tasks)]_vars

\* C4: a stored buffer whose eviction delay of 60 time units has elapsed is
\* no longer in the registry, or a cleanup of that task is due right now,
\* whether or not the buffer was ever fetched.
C4_EvictedAfterDelay ==
  \A id \in TaskIds :
    (HasBuffer(download_tasks, id) /\ elapsed[id] >= EvictionDelay)
      => \E i \in 1 .. Len(timers) : timers[i].id = id /\ Runnable(timers[i])

\* C5: in every run the i-th progress event has current = i (so current
\* starts at 1 and grows by one), total = the number of listed objects, and
\* current <= total.
C5_ProgressMonotone ==
  \A g \in Runs :
    LET p == ProgressOf(gen[g].events)
    IN \A i \in 1 .. Len(p) :
         /\ p[i][2] = i
         /\ p[i][3] = Len(gen[g].objects)
         /\ p[i][2] <= p[i][3]

\* Both runs are over a listing of two files; one saw both fetched, the
\* other lost a fetch and still counted its only progress event as 1.
C5_Witness ==
  /\ gen[1].pc = "done" /\ gen[2].pc = "done"
  /\ Len(gen[1].objects) = 2 /\ Len(gen[2].objects) = 2
  /\ \E g \in Runs : Len(ProgressOf(gen[g].events)) = 2
  /\ \E g \in Runs : Len(ProgressOf(gen[g].events)) = 1

\* C6: at the step that emits complete, the task is in the registry with its
\* buffer stored; complete is the last event and its file_count is the
\* number of progress events of the run.
C6_CompleteAfterStore ==
  [][\A g \in Runs :
       (gen[g].pc = "complete" /\ Ends(g))
         => /\ HasBuffer(download_tasks, gen[g].task_id)
            /\ Last(gen'[g].events) = EvComplete(Len(ProgressOf(gen[g].events)))]_vars

\* C7: over an empty listing a run emits the single event error and ends;
\* no task entry is ever created, so the registry stays as it was (empty).
C7_EmptyPrefix ==
  bucket = << >> =>
    /\ DOMAIN download_tasks = {}
    /\ \A g \in Runs :
         \/ gen[g].pc = "idle" /\ gen[g].events = << >>
         \/ gen[g].pc = "done" /\ gen[g].events = << EvError >>

C7_Witness ==
  /\ bucket = << >>
  /\ gen[1].pc = "done"
  /\ gen[1].events = << EvError >>
  /\ DOMAIN download_tasks = {}

\* C8: a run that was registered and was not cancelled ends with complete,
\* without an error event and with one progress event per archive entry,
\* whichever object fetches failed.
C8_PartialFailureTolerated ==
  \A g \in Runs :
    (gen[g].pc = "done" /\ Registered(gen[g]) /\ Last(gen[g].events) # EvCancelled)
      => /\ Last(gen[g].events) = EvComplete(Len(gen[g].zip))
         /\ Len(ProgressOf(gen[g].events)) = Len(gen[g].zip)
         /\ \A i \in 1 .. Len(gen[g].events) : gen[g].events[i] # EvError

\* C9: cancel answers whether the task existed: not_found for an id that is
\* not in the registry (which it leaves unchanged), else cancelled after
\* setting the flag of the existing entry and nothing else.
C9_CancelAnswersExistence ==
  [][/\ (cancel_req.pc # "done" /\ cancel_req'.pc = "done")
          => cancel_req'.resp \in {"cancelled", "not_found"}
     /\ cancel_req'.resp = "not_found" /\ cancel_req' # cancel_req
          => ~Has(download_tasks, cancel_req'.id) /\ download_tasks' = download_tasks
     /\ cancel_req'.resp = "cancelled" /\ cancel_req' # cancel_req
          => /\ Has(download_tasks, cancel_req.id)
             /\ download_tasks' =
                  [download_tasks EXCEPT ![cancel_req.id].cancelled = TRUE]]_vars

\* C10: get-zip answers not_found without a task, not_ready for a task
\* without a buffer, and the stored archive otherwise; only the answer with
\* the archive starts a cleanup thread, and no answer changes the registry.
C10_GetZipAnswers ==
  [][/\ (zip_req.pc # "read" /\ zip_req'.pc = "done" /\ zip_req' # zip_req)
       => /\ ~Has(download_tasks, zip_req'.id)
          /\ zip_req'.resp = "not_found"
          /\ download_tasks' = download_tasks /\ timers' = timers
     /\ (zip_req.pc = "read" /\ zip_req'.pc = "done")
       => /\ download_tasks' = download_tasks
          /\ IF ~Has(download_tasks, zip_req.id)
               THEN zip_req'.resp = "not_found" /\ timers' = timers
             ELSE IF download_tasks[zip_req.id].zip_buffer = None
               THEN zip_req'.resp = "not_ready" /\ timers' = timers
             ELSE /\ zip_req'.resp = "file"
                  /\ zip_req'.data[1].zip = download_tasks[zip_req.id].zip_buffer[1]
                  /\ Len(timers') = Len(timers) + 1]_vars

\* C11: eviction after retrieval.  Every get-zip that answers with the archive
\* starts, in the step that answers, a cleanup thread that sleeps
\* EvictionDelay and leaves the registry as it is (retrieval does not consume
\* the buffer); the entry is gone EvictionDelay after the first such answer
\* (no time passes beyond it); every get-zip answered between the first
\* retrieval and the removal returns the same archive, and a get-zip that
\* finds no entry answers not_found.
C11_EvictionAfterRetrieval ==
  [][/\ (zip_req.pc = "read" /\ zip_req'.pc = "done" /\ zip_req'.resp = "file")
          => /\ timers' = Append(timers, [id |-> zip_req.id, rem |-> EvictionDelay,
                                          pc |-> "sleep"])
             /\ download_tasks' = download_tasks
     /\ (zip_req.pc = "read" /\ zip_req'.pc = "done" /\ fetched[zip_req.id] # None)
          => /\ zip_req'.resp = "file"
             /\ zip_req'.data[1].zip = fetched[zip_req.id][1].zip
     /\ \A id \in TaskIds :
          /\ (fetched[id] # None /\ fetched[id][1].age = EvictionDelay)
               => \E i \in 1 .. Len(timers) : timers[i].id = id /\ Runnable(timers[i])
          /\ (fetched[id] # None /\ fetched'[id] = None)
               => fetched[id][1].age = EvictionDelay /\ ~Has(download_tasks', id)
     /\ (zip_req.pc = "idle" /\ zip_req'.pc = "done")
          => ~Has(download_tasks, zip_req'.id) /\ zip_req'.resp = "not_found"]_vars

\* ------------------------------------------------ reading a built tree
\* the node reached from `tree` along `chain`, or None
RECURSIVE NodeAt(_, _)
NodeAt(tree, chain) ==
  IF ~Has(tree, Head(chain)) THEN None
  ELSE IF Len(chain) = 1 THEN Some(tree[Head(chain)])
  ELSE NodeAt(tree[Head(chain)].folders, Tail(chain))

HoldsKey(files, key) == \E i \in 1 .. Len(files) : files[i].key = key
\* the file is in the list that render_tree shows as the root's own files
InRootStore(tree, key) == Has(tree, RootFiles) /\ HoldsKey(tree[RootFiles].files, key)
\* the file is in the file list of the folder named by `chain`
InFolder(tree, chain, key) ==
  NodeAt(tree, chain) # None /\ HoldsKey(NodeAt(tree, chain)[1].files, key)

\* the file entries of all nodes
RECURSIVE TotalFiles(_)
RECURSIVE TotalFilesOf(_, _)
TotalFilesOf(tree, names) ==
  IF names = {} THEN 0
  ELSE LET n == CHOOSE x \in names : TRUE
       IN Len(tree[n].files) + TotalFiles(tree[n].folders)
          + TotalFilesOf(tree, names \ {n})
TotalFiles(tree) == TotalFilesOf(tree, DOMAIN tree)

\* the folder nodes: every node but the root's file store
RECURSIVE NestedNodes(_)
RECURSIVE NestedNodesOf(_, _)
NestedNodesOf(tree, names) ==
  IF names = {} THEN 0
  ELSE LET n == CHOOSE x \in names : TRUE
       IN 1 + NestedNodes(tree[n].folders) + NestedNodesOf(tree, names \ {n})
NestedNodes(tree) == NestedNodesOf(tree, DOMAIN tree)
FolderCount(tree) == NestedNodes(tree) - (IF Has(tree, RootFiles) THEN 1 ELSE 0)

IsPrefix(s, t) == Len(s) <= Len(t) /\ SubSeq(t, 1, Len(s)) = s
\* every node of t is a node of u with at least the same files and subfolders
RECURSIVE TreeLeq(_, _)
TreeLeq(t, u) ==
  \A n \in DOMAIN t :
    /\ Has(u, n)
    /\ IsPrefix(t[n].files, u[n].files)
    /\ TreeLeq(t[n].folders, u[n].folders)

\* C12: build_tree placement.  Each record of build_tree's loop keeps every
\* node with its files and subfolders, creates at most N-1 folder nodes for
\* a key of N segments and creates the folder chain of all segments but the
\* last; a key with an empty last segment adds no file; any other key adds
\* exactly one file entry, which is in the file list of the folder named by
\* that chain and not among the root's files, or, for a key without '/',
\* among the root's files.
C12_BuildTreePlacement ==
  [][(page.pc = "build" /\ page'.pc = "build" /\ page'.idx = page.idx + 1) =>
       LET obj == page.objects[page.idx]
           parts == Split(obj.Key)
           chain == SubSeq(parts, 1, Len(parts) - 1)
           t == page.tree
           u == page'.tree
       IN /\ TreeLeq(t, u)
          /\ FolderCount(u) - FolderCount(t) <= Len(parts) - 1
          /\ chain # << >> => NodeAt(u, chain) # None
          /\ IF parts[Len(parts)] = << >>
               THEN TotalFiles(u) = TotalFiles(t)
               ELSE /\ TotalFiles(u) = TotalFiles(t) + 1
                    /\ IF Len(parts) = 1
                         THEN InRootStore(u, obj.Key)
                         ELSE InFolder(u, chain, obj.Key) /\ ~InRootStore(u, obj.Key)]_vars

\* `under` is the folder `path` or lies below it
Within(under, path) ==
  \/ under = path
  \/ Len(under) > Len(path) /\ SubSeq(under, 1, Len(path) + 1) = path \o << "/" >>

\* no record of the list uses the reserved name as a folder name
NoReservedName(objects) ==
  \A i \in 1 .. Len(objects) :
    LET parts == Split(objects[i].Key)
    IN \A k \in 1 .. Len(parts) - 1 : parts[k] # RootFiles

\* C13: render order.  In the rendered page of a list without the reserved
\* folder name, whatever the order of its records: the files of one level
\* (the root's as well as each folder's) appear in ascending order of their
\* full key, the subfolders of one level in ascending order of their name,
\* the files of a level before its subfolders, and each folder's subtree is
\* rendered as one block right after the folder (depth-first).
C13_RenderOrder ==
  (page.pc = "done" /\ NoReservedName(page.objects)) =>
    LET h == page.html
        I == 1 .. Len(page.html)
    IN /\ \A i, j \in I :
            (i < j /\ h[i].kind = h[j].kind /\ h[i].under = h[j].under)
              => StrLess(h[i].key, h[j].key)
       /\ \A i, j \in I :
            (h[i].kind = "file" /\ h[j].kind = "folder" /\ h[i].under = h[j].under)
              => i < j
       /\ \A i, k \in I :
            (h[i].kind = "folder" /\ Within(h[k].under, h[i].key))
              => /\ i < k
                 /\ \A m \in i + 1 .. k : Within(h[m].under, h[i].key)

RECURSIVE SumSizes(_)
SumSizes(records) ==
  IF records = << >> THEN 0 ELSE Head(records).Size + SumSizes(Tail(records))

\* the records of the listing other than the one whose key equals the prefix
BelowPrefix(records, prefix) ==
  LET Test(rec) == rec.Key # prefix IN SelectSeq(records, Test)

\* C14: folder-info statistics.  The answer of folder_info reports as
\* total_size_bytes the sum of the sizes of all listed records except the
\* one whose key equals the prefix, as subfolder_count the number of
\* distinct first segments of the relative paths that contain '/', and as
\* file_count the number of files under the prefix, the folder-marker record
\* not being one of them.
C14_FolderInfoStatistics ==
  (info_req.pc = "done" /\ info_req.resp[1].status = 200) =>
    LET prefix == Normalize(FolderPath)
        files == BelowPrefix(bucket, prefix)
        info == info_req.resp[1]
    IN /\ info.total_size_bytes = SumSizes(files)
       /\ info.subfolder_count =
            Cardinality({ Split(RelativePath(files[i].Key, prefix))[1] :
                          i \in { k \in 1 .. Len(files) :
                                    Len(Split(RelativePath(files[k].Key, prefix))) > 1 } })
       /\ info.file_count = Len(files)

\* C15: cancellation latency.  A run that was in its loop, or between its
\* last file and the check of line 347, when a cancel-download request set
\* the flag of its task goes no further than the next check: it never
\* reaches the buffer store, and when it has ended its last event is
\* cancelled.
C15_CancelObserved ==
  \A g \in cancel_pending :
    \/ gen[g].pc \in {"loop", "check"}
    \/ gen[g].pc = "done" /\ Last(gen[g].events) = EvCancelled

\* C16: registry mutual exclusion.  No registry operation that passed its
\* existence check finds the entry missing afterwards (cancel_download
\* between lines 405 and 406, get_zip between 374 and 377, the cleanup
\* thread between 392 and 393), the generator's check of line 347 still
\* holds when it stores its buffer at line 355, and neither get_zip nor
\* cancel_download ever ends in an unhandled failure.
C16_RegistryOperationsAtomic ==
  /\ cancel_req.pc = "set" => Has(download_tasks, cancel_req.id)
  /\ zip_req.pc = "read" => Has(download_tasks, zip_req.id)
  /\ \A i \in 1 .. Len(timers) :
       timers[i].pc = "del" => Has(download_tasks, timers[i].id)
  /\ \A g \in Runs :
       gen[g].pc = "store"
         => Has(download_tasks, gen[g].task_id)
            /\ ~IsCancelled(download_tasks, gen[g].task_id)
  /\ cancel_req.resp # "error"
  /\ zip_req.resp # "error"

\* C17: listing exhaustive.  A run that went past its listing holds all the
\* records of the prefix, in the order of the pages, none dropped and none
\* twice; a run whose listing did not give it any record (a failed listing
\* call, or an empty prefix) has emitted the error event only and is over;
\* and the registry holds a task only if some run went past its listing.
C17_ListingExhaustive ==
  /\ \A g \in Runs :
       /\ Registered(gen[g]) => gen[g].objects = bucket
       /\ (gen[g].pc # "idle" /\ ~Registered(gen[g]))
            => gen[g].pc = "done" /\ gen[g].events = << EvError >>
  /\ DOMAIN download_tasks # {} => \E g \in Runs : Registered(gen[g])
  /\ ListLoop(<< >>, 1) = bucket

\* a run listed a prefix of more than one page, and another run's listing
\* call failed
C17_Witness ==
  /\ bucket # << >>
  /\ \E g \in Runs : Registered(gen[g]) /\ Len(gen[g].objects) > PageSize
  /\ \E g \in Runs : gen[g].pc = "done" /\ gen[g].objects = << >>

IsTerminal(e) == e[1] \in {"complete", "cancelled", "error"}
\* a terminal event is the last event and ends the run; a run that is over
\* has one
OneTerminalEvent(r) ==
  /\ \A i \in 1 .. Len(r.events) :
       IsTerminal(r.events[i]) => i = Len(r.events) /\ r.pc = "done"
  /\ r.pc = "done" => r.events # << >> /\ IsTerminal(Last(r.events))
\* what is left of a run: the statements before it, then the records of its loop
PcRank(pc) ==
  CASE pc = "idle" -> 6 [] pc = "loop" -> 5 [] pc = "check" -> 4
    [] pc = "store" -> 3 [] pc = "name" -> 2 [] pc = "complete" -> 1
    [] pc = "done" -> 0
Remaining(r) ==
  PcRank(r.pc) * (MaxObjects + 2)
  + (IF r.pc = "loop" THEN Len(r.objects) + 1 - r.idx ELSE 0)

\* C18: exactly one terminal event.  In every state each run's events hold
\* at most one of complete, cancelled and error, as their last element, and
\* a run that is over holds one; a run that has started and is not over is
\* never blocked, and each of its steps brings it nearer to its end, so a
\* run whose stream is consumed terminates.
C18_OneTerminalEvent ==
  [][\A g \in Runs :
       /\ OneTerminalEvent(gen[g])
       /\ OneTerminalEvent(gen'[g])
       /\ gen[g].pc \notin {"idle", "done"}
            => ENABLED (Iterate(g) \/ PostCheck(g) \/ StoreBuffer(g)
                        \/ StoreName(g) \/ EmitComplete(g))
       /\ gen'[g] # gen[g] => Remaining(gen'[g]) < Remaining(gen[g])]_vars

\* the two runs are over, one with cancelled and one with complete after
\* progress events
C18_Witness ==
  /\ \E g \in Runs : gen[g].pc = "done" /\ Last(gen[g].events) = EvCancelled
  /\ \E g \in Runs : /\ gen[g].pc = "done" /\ Len(gen[g].events) > 1
                     /\ Last(gen[g].events)[1] = "complete"

\* C19: a stale eviction never removes a newer task.  The cleanup thread of
\* a retrieval deletes only the entry that was retrieved, that is an entry
\* whose archive has been stored for at least EvictionDelay; it deletes no
\* entry that a later run registered under the same id and that has no
\* archive yet or whose archive is younger than the delay.
C19_EvictionOnlyOfRetrievedTask ==
  [][\A id \in TaskIds :
       (Has(download_tasks, id) /\ ~Has(download_tasks', id))
         => HasBuffer(download_tasks, id) /\ elapsed[id] >= EvictionDelay]_vars

\* C20: legacy equivalence.  With no cancellation and the same fetches
\* failing, the archive download_folder returns and the archive generate()
\* stored for the same prefix and listing have the same entries in the same
\* order and the same compression (which is chosen by the same rule for
\* every number of records), and the same folder name; on an empty listing
\* the legacy endpoint answers 404 without an archive and the run ends with
\* error without storing one.
C20_LegacyEquivalence ==
  LET r == gen[1]
      id == r.task_id
  IN /\ (legacy_req.pc = "done" /\ legacy_req.status = 200
         /\ r.pc \in {"name", "complete", "done"} /\ HasBuffer(download_tasks, id)
         /\ r.failed = legacy_req.failed)
          => /\ download_tasks[id].zip_buffer = legacy_req.archive
             /\ download_tasks[id].folder_name # None
                  => download_tasks[id].folder_name = legacy_req.folder_name
     /\ (legacy_req.pc = "done" /\ legacy_req.status # 500
         /\ r.pc = "done" /\ bucket = << >>)
          => /\ legacy_req.status = 404 /\ legacy_req.archive = None
             /\ r.events = << EvError >> /\ ~Has(download_tasks, id)
     /\ \A n \in 0 .. 2 * CompressionThreshold : LegacyCompression(n) = Compression(n)

\* both archives are there, hold an entry, and miss a file whose fetch failed
C20_Witness ==
  /\ legacy_req.pc = "done" /\ legacy_req.status = 200
  /\ gen[1].pc = "done" /\ HasBuffer(download_tasks, gen[1].task_id)
  /\ gen[1].failed = legacy_req.failed /\ gen[1].failed # {}
  /\ legacy_req.archive[1].entries # << >>
  /\ download_tasks[gen[1].task_id].folder_name = legacy_req.folder_name

\* '/'.join(segments)
RECURSIVE Join(_)
Join(segments) ==
  IF segments = << >> THEN << >>
  ELSE IF Len(segments) = 1 THEN segments[1]
  ELSE segments[1] \o << "/" >> \o Join(Tail(segments))

\* the folder chain of a key: all its segments but the last
ChainOf(key) == LET parts == Split(key) IN SubSeq(parts, 1, Len(parts) - 1)
\* the folder chains of a list: the non-empty prefixes of its keys' chains
FolderChains(objects) ==
  UNION { { SubSeq(ChainOf(objects[i].Key), 1, n) :
              n \in 1 .. Len(ChainOf(objects[i].Key)) } :
          i \in 1 .. Len(objects) }
ItemsOf(h, kind, key) == { i \in 1 .. Len(h) : h[i].kind = kind /\ h[i].key = key }

\* C21: every listed file is rendered exactly once.  Whatever the segment
\* names, the rendered page has exactly one file item per record with a
\* non-empty last segment, addressed by the record's key and placed in the
\* list of the folder named by its chain; exactly one folder item per
\* distinct folder chain, placed in the list of its parent; and no other
\* item.
C21_EveryFileRenderedOnce ==
  page.pc = "done" =>
    LET h == page.html
        objects == page.objects
        files == { i \in 1 .. Len(objects) :
                     LET parts == Split(objects[i].Key)
                     IN parts[Len(parts)] # << >> }
        chains == FolderChains(objects)
    IN /\ \A i \in files :
            /\ Cardinality(ItemsOf(h, "file", objects[i].Key)) = 1
            /\ \A k \in ItemsOf(h, "file", objects[i].Key) :
                 h[k].under = Join(ChainOf(objects[i].Key))
       /\ \A c \in chains :
            /\ Cardinality(ItemsOf(h, "folder", Join(c))) = 1
            /\ \A k \in ItemsOf(h, "folder", Join(c)) :
                 h[k].under = Join(SubSeq(c, 1, Len(c) - 1))
       /\ Len(h) = Cardinality(files) + Cardinality(chains)

\* the record is in the tree: its file entry in the list of its folder (or
\* of the root), or, for a key that ends in '/', its folder chain
InTree(tree, key) ==
  LET parts == Split(key)
      chain == SubSeq(parts, 1, Len(parts) - 1)
  IN IF parts[Len(parts)] = << >> THEN NodeAt(tree, chain) # None
     ELSE IF Len(parts) = 1 THEN InRootStore(tree, key)
     ELSE InFolder(tree, chain, key)

\* C22: the bucket root page covers the whole bucket.  The index route
\* hands build_tree every record of the bucket, also when the bucket holds
\* more records than one listing call returns, and every record of the
\* bucket is in the tree that is rendered.
C22_IndexCoversBucket ==
  /\ page.pc \in {"build", "done"} => page.objects = bucket
  /\ page.pc = "done" => \A i \in 1 .. Len(bucket) : InTree(page.tree, bucket[i].Key)

====
